---- MODULE Spec2Model ----
(***************************************************************************)
(* TrafficJunction (ma_gym/envs/traffic_junction/traffic_junction.py): a   *)
(* four-way junction on a square grid.  The state is the environment       *)
(* object's fields; the operations are reset() and step(agents_action).    *)
(* Rewards are counted in hundredths (rcoll = -10 is -1000, the time       *)
(* penalty -0.01 * step_count is -step_count).                             *)
(***************************************************************************)
EXTENDS Integers, Sequences, FiniteSets, TLC

\* ---------------------------------------------------------------- bounds
\* grid_shape = (GridSize, GridSize); the constructor's default is (14, 14).
GridSize == 4
\* step() is explored while the step counter is below this cap.
MaxStepCalls == 3
\* lengths of the action vectors handed to step(): n_agents - LenSlack .. n_agents + LenSlack
LenSlack == 1

\* ------------------------------------------------------ program constants
\* self._n_max: the constructor's n_max, fixed for the life of the object
VARIABLE n_max
\* the n_max of the instances explored: Cars in Spec, the constructor's default
\* DefaultCars and ManyCars (more slots than entry gates) in the specifications
\* named after them
Cars == 2
DefaultCars == 4
ManyCars == 5
\* self.n_agents = n_max (line 51)
n_agents == n_max
max_steps == 100
collision_reward == -1000
step_cost == 0
\* _step_count = None after construction
None == -1

Agents == 0 .. (n_agents - 1)
Half == GridSize \div 2
Cells == (0 .. (GridSize - 1)) \X (0 .. (GridSize - 1))

\* a position that is None
NoPos == << >>
\* _agents_direction[i] = 0 after construction (no direction vector yet)
NoDir == << >>

PRE_IDS_wall == "W"
PRE_IDS_empty == "0"
\* PRE_IDS['agent'] + str(agent_i + 1)
AgentTag(agent_i) == <<"A1", "A2", "A3", "A4", "A5", "A6">>[agent_i + 1]
AgentTags == {AgentTag(k) : k \in Agents}

entry_gates ==
  << <<Half, 0>>, <<GridSize - 1, Half>>, <<0, Half - 1>>, <<Half - 1, GridSize - 1>> >>

destination ==
  << <<Half, GridSize - 1>>, <<0, Half>>, <<GridSize - 1, Half - 1>>, <<Half - 1, 0>> >>

\* list(self._route_vectors.keys())
route_vector_keys ==
  << <<Half, 0>>, <<GridSize - 1, Half>>, <<0, Half - 1>>, <<Half - 1, GridSize - 1>> >>

route_vectors(pos) ==
  CASE pos = <<Half, 0>> -> <<0, 1>>
    [] pos = <<GridSize - 1, Half>> -> <<-1, 0>>
    [] pos = <<0, Half - 1>> -> <<1, 0>>
    [] pos = <<Half - 1, GridSize - 1>> -> <<0, -1>>

turning_places(dir) ==
  CASE dir = <<0, 1>> -> << <<Half, Half - 1>>, <<Half, Half>> >>
    [] dir = <<-1, 0>> -> << <<Half, Half>>, <<Half - 1, Half>> >>
    [] dir = <<1, 0>> -> << <<Half - 1, Half - 1>>, <<Half, Half - 1>> >>
    [] dir = <<0, -1>> -> << <<Half - 1, Half>>, <<Half - 1, Half - 1>> >>

SeqRange(s) == {s[k] : k \in DOMAIN s}

\* the second __create_grid of the class (it replaces the first): walls, then
\* the two central rows and the two central columns made empty
create_grid ==
  [row \in 0 .. (GridSize - 1) |->
     [col \in 0 .. (GridSize - 1) |->
        IF row \in {Half - 1, Half} \/ col \in {Half - 1, Half}
        THEN PRE_IDS_empty ELSE PRE_IDS_wall]]

\* self._full_obs[pos[0]][pos[1]]
CellAt(e, pos) == e.full_obs[pos[1]][pos[2]]

is_valid(pos) ==
  /\ 0 <= pos[1] /\ pos[1] < GridSize
  /\ 0 <= pos[2] /\ pos[2] < GridSize

\* mutant: the emptiness of the cell is not tested
is_cell_vacant_NoEmptyTest(e, pos) == is_valid(pos)

is_cell_vacant(e, pos) == is_valid(pos) /\ CellAt(e, pos) = PRE_IDS_empty

\* str.find(PRE_IDS['agent']) > -1
check_colision(e, pos) == is_valid(pos) /\ CellAt(e, pos) \in AgentTags

\* pos not in self.agent_pos.values(), for some entry gate
is_gate_free(e) ==
  \E g \in DOMAIN entry_gates :
     \A k \in DOMAIN e.agent_pos : e.agent_pos[k] # entry_gates[g]

update_agent_view(e, agent_i) ==
  [e EXCEPT !.full_obs[e.agent_pos[agent_i][1]][e.agent_pos[agent_i][2]] = AgentTag(agent_i)]

\* ------------------------------------------------------------- movement
AddVec(pos, dir) == <<pos[1] + dir[1], pos[2] + dir[2]>>

\* called with route 2 or 3 only; dir_vector[0], dir_vector[1] are dir[1], dir[2] here
get_next_move(e, route, agent_i) ==
  LET dir_vector == e.agents_direction[agent_i]
      sig == IF route = 2
             THEN (IF dir_vector[2] # 0 THEN 1 ELSE -1)
             ELSE (IF dir_vector[2] # 0 THEN -1 ELSE 1)
  IN  IF dir_vector[1] = 0
      THEN <<dir_vector[2] * sig, 0>>
      ELSE <<0, dir_vector[1] * sig>>

\* mutant: the turned flag is not consulted, the car may turn again
Candidate_IgnoreTurned(e, agent_i, move) ==
  LET curr_pos == e.agent_pos[agent_i]
      route == e.agents_routes[agent_i]
      dir == e.agents_direction[agent_i]
  IN  IF move = 0
      THEN IF route # 1 /\ curr_pos = turning_places(dir)[route - 1]
           THEN LET new_dir_vector == get_next_move(e, route, agent_i)
                IN  [env |-> [e EXCEPT !.agents_direction[agent_i] = new_dir_vector,
                                       !.agent_turned[agent_i] = TRUE],
                     next_pos |-> AddVec(curr_pos, new_dir_vector),
                     raised |-> FALSE]
           ELSE [env |-> e, next_pos |-> AddVec(curr_pos, dir), raised |-> FALSE]
      ELSE [env |-> e, next_pos |-> NoPos, raised |-> move # 1]

\* lines 294-311: the candidate cell of a move, with the direction and the
\* turned flag already rewritten when the car turns.  next_pos = NoPos is None.
Candidate(e, agent_i, move) ==
  LET curr_pos == e.agent_pos[agent_i]
      route == e.agents_routes[agent_i]
      dir == e.agents_direction[agent_i]
  IN  IF move = 0
      THEN IF route = 1
           THEN [env |-> e, next_pos |-> AddVec(curr_pos, dir), raised |-> FALSE]
           ELSE LET turn_pos == turning_places(dir)
                IN  IF curr_pos = turn_pos[route - 1] /\ ~e.agent_turned[agent_i]
                    THEN LET new_dir_vector == get_next_move(e, route, agent_i)
                         IN  [env |-> [e EXCEPT !.agents_direction[agent_i] = new_dir_vector,
                                                !.agent_turned[agent_i] = TRUE],
                              next_pos |-> AddVec(curr_pos, new_dir_vector),
                              raised |-> FALSE]
                    ELSE [env |-> e, next_pos |-> AddVec(curr_pos, dir), raised |-> FALSE]
      ELSE IF move = 1
           THEN [env |-> e, next_pos |-> NoPos, raised |-> FALSE]
           ELSE [env |-> e, next_pos |-> NoPos, raised |-> TRUE]

\* mutant: the cell the car leaves keeps its mark
MoveTo_NoVacate(e, agent_i, next_pos) ==
  update_agent_view([e EXCEPT !.agent_pos[agent_i] = next_pos], agent_i)

\* lines 317-320: move the car into next_pos
MoveTo(e, agent_i, next_pos) ==
  LET curr_pos == e.agent_pos[agent_i]
      e1 == [e EXCEPT !.agent_pos[agent_i] = next_pos]
      e2 == [e1 EXCEPT !.full_obs[curr_pos[1]][curr_pos[2]] = PRE_IDS_empty]
  IN  update_agent_view(e2, agent_i)

\* mutant: the collision test of line 314 is dropped
update_agent_pos_NoCollisionTest(e, agent_i, move) ==
  LET c == Candidate(e, agent_i, move)
  IN  IF c.raised
      THEN [env |-> c.env, ret |-> 0, raised |-> TRUE]
      ELSE IF c.next_pos # NoPos /\ is_cell_vacant(c.env, c.next_pos)
      THEN [env |-> MoveTo(c.env, agent_i, c.next_pos), ret |-> 0, raised |-> FALSE]
      ELSE [env |-> c.env, ret |-> 0, raised |-> FALSE]

\* mutant: a blocked car gets its direction and turned flag back
update_agent_pos_UndoTurnWhenBlocked(e, agent_i, move) ==
  LET c == Candidate(e, agent_i, move)
  IN  IF c.raised
      THEN [env |-> c.env, ret |-> 0, raised |-> TRUE]
      ELSE IF c.next_pos # NoPos /\ check_colision(c.env, c.next_pos)
      THEN [env |-> e, ret |-> collision_reward, raised |-> FALSE]
      ELSE IF c.next_pos # NoPos /\ is_cell_vacant(c.env, c.next_pos)
      THEN [env |-> MoveTo(c.env, agent_i, c.next_pos), ret |-> 0, raised |-> FALSE]
      ELSE [env |-> c.env, ret |-> 0, raised |-> FALSE]

\* mutant: the car drives into the occupied cell and pays the penalty
update_agent_pos_MoveOnCollision(e, agent_i, move) ==
  LET c == Candidate(e, agent_i, move)
  IN  IF c.raised
      THEN [env |-> c.env, ret |-> 0, raised |-> TRUE]
      ELSE IF c.next_pos # NoPos /\ check_colision(c.env, c.next_pos)
      THEN [env |-> MoveTo(c.env, agent_i, c.next_pos), ret |-> collision_reward,
            raised |-> FALSE]
      ELSE IF c.next_pos # NoPos /\ is_cell_vacant(c.env, c.next_pos)
      THEN [env |-> MoveTo(c.env, agent_i, c.next_pos), ret |-> 0, raised |-> FALSE]
      ELSE [env |-> c.env, ret |-> 0, raised |-> FALSE]

\* [env, ret, raised]: ret is the collision reward or 0; raised is the
\* Exception('Action Not found!') of line 311
update_agent_pos(e, agent_i, move) ==
  LET c == Candidate(e, agent_i, move)
  IN  IF c.raised
      THEN [env |-> c.env, ret |-> 0, raised |-> TRUE]
      ELSE IF c.next_pos # NoPos /\ check_colision(c.env, c.next_pos)
      THEN [env |-> c.env, ret |-> collision_reward, raised |-> FALSE]
      ELSE IF c.next_pos # NoPos /\ is_cell_vacant(c.env, c.next_pos)
      THEN [env |-> MoveTo(c.env, agent_i, c.next_pos), ret |-> 0, raised |-> FALSE]
      ELSE [env |-> c.env, ret |-> 0, raised |-> FALSE]

\* mutant: the done flag does not keep a slot out of the movement pass
RECURSIVE MovePass_NoDoneTest(_, _, _)
MovePass_NoDoneTest(m, agents_action, agent_i) ==
  IF agent_i >= Len(agents_action) \/ m.raised
  THEN m
  ELSE IF m.env.on_the_road[agent_i]
  THEN LET u == update_agent_pos(m.env, agent_i, agents_action[agent_i + 1])
       IN  MovePass_NoDoneTest([env |-> u.env,
                                rewards |-> [m.rewards EXCEPT ![agent_i] = @ + u.ret],
                                raised |-> u.raised],
                               agents_action, agent_i + 1)
  ELSE MovePass_NoDoneTest(m, agents_action, agent_i + 1)

\* lines 233-236: the movement pass over enumerate(agents_action), from slot
\* agent_i on; m = [env, rewards, raised]
RECURSIVE MovePass(_, _, _)
MovePass(m, agents_action, agent_i) ==
  IF agent_i >= Len(agents_action) \/ m.raised
  THEN m
  ELSE IF m.env.agent_dones[agent_i] # "True" /\ m.env.on_the_road[agent_i]
  THEN LET u == update_agent_pos(m.env, agent_i, agents_action[agent_i + 1])
       IN  MovePass([env |-> u.env,
                     rewards |-> [m.rewards EXCEPT ![agent_i] = @ + u.ret],
                     raised |-> u.raised],
                    agents_action, agent_i + 1)
  ELSE MovePass(m, agents_action, agent_i + 1)

\* -------------------------------------------------------------- arrival
Routes == 1 .. 3

\* the keys of _route_vectors whose cell is vacant: the retry loop of lines
\* 243-253 (and 116-126) leaves only on a draw of one of these
VacantKeys(e) ==
  {pos \in SeqRange(route_vector_keys) : is_cell_vacant(e, pos)}

\* mutant: the live-car count is not raised on activation
Activate_NoCount(e, agent_i, pos, route) ==
  update_agent_view(
    [e EXCEPT !.agents_direction[agent_i] = route_vectors(pos),
              !.agent_pos[agent_i] = pos,
              !.on_the_road[agent_i] = TRUE,
              !.agent_turned[agent_i] = FALSE,
              !.agents_routes[agent_i] = route],
    agent_i)

\* lines 245-252: slot agent_i activated on pos with the drawn route
Activate(e, agent_i, pos, route) ==
  update_agent_view(
    [e EXCEPT !.agents_direction[agent_i] = route_vectors(pos),
              !.agent_pos[agent_i] = pos,
              !.curr_cars_count = @ + 1,
              !.on_the_road[agent_i] = TRUE,
              !.agent_turned[agent_i] = FALSE,
              !.agents_routes[agent_i] = route],
    agent_i)

\* a retry loop that no draw can leave: it rewrites the direction for ever
Spinning(e, agent_i) ==
  {[env |-> [e EXCEPT !.agents_direction[agent_i] = route_vectors(pos)], hang |-> TRUE] :
     pos \in SeqRange(route_vector_keys)}

\* mutant: a slot is activated whether or not it is on the road already
RECURSIVE ArrivalFrom_NoOnRoadTest(_, _)
ArrivalFrom_NoOnRoadTest(e, agent_i) ==
  IF agent_i >= n_agents
  THEN {[env |-> e, hang |-> FALSE]}
  ELSE IF is_gate_free(e)
  THEN IF VacantKeys(e) = {}
       THEN Spinning(e, agent_i)
       ELSE UNION {ArrivalFrom_NoOnRoadTest(Activate(e, agent_i, pos, route), agent_i + 1) :
                     pos \in VacantKeys(e), route \in Routes}
  ELSE ArrivalFrom_NoOnRoadTest(e, agent_i + 1)

\* lines 241-253: the outcomes [env, hang] of the loop over the slots from
\* agent_i on, one for every draw of gates and routes
RECURSIVE ArrivalFrom(_, _)
ArrivalFrom(e, agent_i) ==
  IF agent_i >= n_agents
  THEN {[env |-> e, hang |-> FALSE]}
  ELSE IF is_gate_free(e) /\ ~e.on_the_road[agent_i]
  THEN IF VacantKeys(e) = {}
       THEN Spinning(e, agent_i)
       ELSE UNION {ArrivalFrom(Activate(e, agent_i, pos, route), agent_i + 1) :
                     pos \in VacantKeys(e), route \in Routes}
  ELSE ArrivalFrom(e, agent_i + 1)

\* line 240: the arrival draw (arrive = random.uniform(0, 1) < arrive_prob)
\* and the capacity test, then the pass
ArrivalPass(e, arrive) ==
  IF arrive /\ e.curr_cars_count < n_max
  THEN ArrivalFrom(e, 0)
  ELSE {[env |-> e, hang |-> FALSE]}

\* ------------------------------------------------------------ departure
\* mutant: the destination cell is not vacated
Depart_NoVacate(e, agent_i) ==
  IF e.agent_pos[agent_i] \in SeqRange(destination)
  THEN [e EXCEPT !.on_the_road[agent_i] = FALSE, !.curr_cars_count = @ - 1]
  ELSE e

\* lines 157-162 and 256-259 for one slot: any cell of _destination counts,
\* and on_the_road is not consulted
Depart(e, agent_i) ==
  LET pos == e.agent_pos[agent_i]
  IN  IF pos \in SeqRange(destination)
      THEN [e EXCEPT !.full_obs[pos[1]][pos[2]] = PRE_IDS_empty,
                     !.on_the_road[agent_i] = FALSE,
                     !.curr_cars_count = @ - 1]
      ELSE e

RECURSIVE DeparturePass(_, _)
DeparturePass(e, agent_i) ==
  IF agent_i >= n_agents THEN e
  ELSE DeparturePass(Depart(e, agent_i), agent_i + 1)

\* lines 261-263
TerminationCheck(e) ==
  IF e.step_count >= max_steps
  THEN [e EXCEPT !.agent_dones = [i \in Agents |-> "True"]]
  ELSE e

\* mutant: no time penalty is charged
FinalRewards_NoTimePenalty(e, rewards) == [i \in Agents |-> rewards[i]]

\* lines 265-268: rewards of the step, time penalty in hundredths
FinalRewards(e, rewards) ==
  [i \in Agents |-> IF e.on_the_road[i] THEN rewards[i] - e.step_count ELSE rewards[i]]

Finalize(e, rewards) ==
  [e EXCEPT !.total_episode_reward =
     [i \in Agents |-> e.total_episode_reward[i] + FinalRewards(e, rewards)[i]]]

\* ----------------------------------------------------------------- reset
\* lines 121-125: slot agent_i placed on pos (agent_pos was emptied by reset)
InitPlace(e, agent_i, pos, route) ==
  update_agent_view(
    [e EXCEPT !.agents_direction[agent_i] = route_vectors(pos),
              !.agent_pos = [k \in (DOMAIN e.agent_pos) \cup {agent_i} |->
                               IF k = agent_i THEN pos ELSE e.agent_pos[k]],
              !.curr_cars_count = @ + 1,
              !.on_the_road[agent_i] = TRUE,
              !.agents_routes[agent_i] = route],
    agent_i)

\* lines 127-130: the drawn gate pos is taken and four cars are placed already
InitOffRoad(e, agent_i, pos) ==
  update_agent_view(
    [e EXCEPT !.agents_direction[agent_i] = route_vectors(pos),
              !.agent_pos = [k \in (DOMAIN e.agent_pos) \cup {agent_i} |->
                               IF k = agent_i THEN <<0, 0>> ELSE e.agent_pos[k]]],
    agent_i)

\* lines 115-130: the outcomes [env, hang] of the placement loop from slot agent_i on
RECURSIVE InitFrom(_, _)
InitFrom(e, agent_i) ==
  IF agent_i >= n_agents
  THEN {[env |-> e, hang |-> FALSE]}
  ELSE LET placed == UNION {InitFrom(InitPlace(e, agent_i, pos, route), agent_i + 1) :
                              pos \in VacantKeys(e), route \in Routes}
           taken == SeqRange(route_vector_keys) \ VacantKeys(e)
           offroad == UNION {InitFrom(InitOffRoad(e, agent_i, pos), agent_i + 1) :
                               pos \in taken}
       IN  IF e.curr_cars_count >= 4
           THEN placed \cup offroad
           ELSE IF VacantKeys(e) = {} THEN Spinning(e, agent_i) ELSE placed

\* lines 112-113
init_full_obs(e) == InitFrom([e EXCEPT !.full_obs = create_grid], 0)

\* mutant: the step counter is not set back to zero
ResetOutcomes_KeepStepCount(e) ==
  init_full_obs(
    [e EXCEPT !.total_episode_reward = [i \in Agents |-> 0],
              !.step_count = IF @ = None THEN 0 ELSE @,
              !.agent_dones = [i \in Agents |-> "False"],
              !.on_the_road = [i \in Agents |-> FALSE],
              !.agent_turned = [i \in Agents |-> FALSE],
              !.curr_cars_count = 0,
              !.agent_pos = << >>])

\* lines 325-333
ResetOutcomes(e) ==
  init_full_obs(
    [e EXCEPT !.total_episode_reward = [i \in Agents |-> 0],
              !.step_count = 0,
              !.agent_dones = [i \in Agents |-> "False"],
              !.on_the_road = [i \in Agents |-> FALSE],
              !.agent_turned = [i \in Agents |-> FALSE],
              !.curr_cars_count = 0,
              !.agent_pos = << >>])

\* ------------------------------------------------------------------ step
\* what a call returned or raised
Returned(rewards) == [op |-> "step", status |-> "ok", rewards |-> rewards]
Raised(kind) == [op |-> "step", status |-> kind, rewards |-> << >>]

\* lines 240-271, after a movement pass that raised nothing
AfterMovement(m) ==
  {IF a.hang
   THEN [env |-> a.env, ret |-> Raised("hang")]
   ELSE LET d == TerminationCheck(DeparturePass(a.env, 0))
        IN  [env |-> Finalize(d, m.rewards), ret |-> Returned(FinalRewards(d, m.rewards))] :
     a \in ArrivalPass(m.env, TRUE) \cup ArrivalPass(m.env, FALSE)}

\* lines 227-271: every outcome [env, ret] of step(agents_action) in e
StepOutcomes(e, agents_action) ==
  IF Len(agents_action) # n_agents
  THEN {[env |-> e, ret |-> Raised("AssertionError")]}
  ELSE IF e.step_count = None
  THEN {[env |-> e, ret |-> Raised("TypeError")]}
  ELSE LET e1 == [e EXCEPT !.step_count = @ + 1]
           m == MovePass([env |-> e1, rewards |-> [i \in Agents |-> step_cost],
                          raised |-> FALSE], agents_action, 0)
       IN  IF m.raised
           THEN {[env |-> m.env, ret |-> Raised("Exception")]}
           ELSE AfterMovement(m)

\* ----------------------------------------------------------------- state
VARIABLES
  step_count,            \* self._step_count
  total_episode_reward,  \* self._total_episode_reward
  agent_dones,           \* self._agent_dones
  on_the_road,           \* self.on_the_road
  agent_turned,          \* self._agent_turned
  curr_cars_count,       \* self.curr_cars_count
  agent_pos,             \* self.agent_pos
  agents_direction,      \* self._agents_direction
  agents_routes,         \* self._agents_routes
  full_obs,              \* self._full_obs
  np_random,             \* self.np_random, set by seed()
  ret                    \* what the last call returned or raised

vars == <<step_count, total_episode_reward, agent_dones, on_the_road, agent_turned,
          curr_cars_count, agent_pos, agents_direction, agents_routes, full_obs,
          np_random, n_max, ret>>

\* the environment object
Env ==
  [step_count |-> step_count,
   total_episode_reward |-> total_episode_reward,
   agent_dones |-> agent_dones,
   on_the_road |-> on_the_road,
   agent_turned |-> agent_turned,
   curr_cars_count |-> curr_cars_count,
   agent_pos |-> agent_pos,
   agents_direction |-> agents_direction,
   agents_routes |-> agents_routes,
   full_obs |-> full_obs]

\* the environment object after the call
SetEnv(e) ==
  /\ step_count' = e.step_count
  /\ total_episode_reward' = e.total_episode_reward
  /\ agent_dones' = e.agent_dones
  /\ on_the_road' = e.on_the_road
  /\ agent_turned' = e.agent_turned
  /\ curr_cars_count' = e.curr_cars_count
  /\ agent_pos' = e.agent_pos
  /\ agents_direction' = e.agents_direction
  /\ agents_routes' = e.agents_routes
  /\ full_obs' = e.full_obs
  /\ UNCHANGED <<n_max, np_random>>

\* lines 49-107: the object after __init__(n_max = cars); np_random is not
\* set before seed() is called
Constructed(cars) ==
  /\ n_max = cars
  /\ np_random = None
  /\ step_count = None
  /\ total_episode_reward = << >>
  /\ agent_dones = [i \in Agents |-> "None"]
  /\ on_the_road = [i \in Agents |-> FALSE]
  /\ agent_turned = [i \in Agents |-> FALSE]
  /\ curr_cars_count = 0
  /\ agent_pos = [i \in Agents |-> NoPos]
  /\ agents_direction = [i \in Agents |-> NoDir]
  /\ agents_routes = [i \in Agents |-> -1]
  /\ full_obs = create_grid
  /\ ret = [op |-> "init", status |-> "ok", rewards |-> << >>]

Init == Constructed(Cars)

\* a call that never returns leaves nothing to call afterwards
Callable == ret.status # "hang"

Reset ==
  /\ Callable
  /\ \E o \in ResetOutcomes(Env) :
        /\ SetEnv(o.env)
        /\ ret' = [op |-> "reset", status |-> IF o.hang THEN "hang" ELSE "ok",
                   rewards |-> << >>]

\* the values an action takes: 0 (GAS), 1 (BRAKE) and 2 for one outside {0, 1}
ActionValues == {0, 1, 2}
ActionLens == (n_agents - LenSlack) .. (n_agents + LenSlack)
ActionVectors == UNION {[1 .. len -> ActionValues] : len \in ActionLens}

Step(agents_action) ==
  /\ Callable
  /\ step_count < MaxStepCalls
  /\ \E o \in StepOutcomes(Env, agents_action) :
        /\ SetEnv(o.env)
        /\ ret' = o.ret

Next ==
  \/ Reset
  \/ \E agents_action \in ActionVectors : Step(agents_action)

Spec == Init /\ [][Next]_vars

\* ---------------------------------------------------------------- views
OnRoad(e) == {i \in Agents : e.on_the_road[i]}
OccupiedCells(e) == {p \in Cells : CellAt(e, p) \in AgentTags}
Completed(r) == r.op \in {"reset", "step"} /\ r.status = "ok"
Failed(r) == r.status \in {"AssertionError", "Exception", "TypeError"}
\* the action vectors of the right length
FullVectors == [1 .. n_agents -> ActionValues]
\* an action vector step() is specified to reject
Misuse(agents_action) ==
  \/ Len(agents_action) # n_agents
  \/ \E k \in DOMAIN agents_action : agents_action[k] \notin {0, 1}

\* ------------------------------------------------------------------- C1
\* C1: after reset() and after every completed step(), the number of grid
\* cells marked as occupied by a car equals curr_cars_count.
C1_OccupiedEqualsCount ==
  Completed(ret) => Cardinality(OccupiedCells(Env)) = curr_cars_count

\* ------------------------------------------------------------------- C2
\* C2: in every reachable state no two on-road cars have the same position.
C2_NoSharedCell ==
  \A i, j \in OnRoad(Env) : i # j => agent_pos[i] # agent_pos[j]

\* two cars on the road, one of them just refused a move into the other's cell
C2_Witness ==
  /\ ret.op = "step" /\ ret.status = "ok"
  /\ Cardinality(OnRoad(Env)) >= 2
  /\ \E j \in OnRoad(Env) : ret.rewards[j] = collision_reward - step_count

\* ------------------------------------------------------------------- C9
\* C9: after every completed step() no on-road car is positioned on a
\* destination cell and no destination cell is marked occupied.
C9_NoCarLeftOnDestination ==
  (ret.op = "step" /\ ret.status = "ok") =>
     /\ \A i \in OnRoad(Env) : agent_pos[i] \notin SeqRange(destination)
     /\ \A d \in SeqRange(destination) : CellAt(Env, d) \notin AgentTags

\* a step can move a car onto a destination cell, and the car is off the road after it
C9_Witness ==
  \E a \in FullVectors : \E o \in StepOutcomes(Env, a) : \E i \in OnRoad(Env) :
     /\ o.ret.status = "ok"
     /\ agent_pos[i] \notin SeqRange(destination)
     /\ o.env.agent_pos[i] \in SeqRange(destination)
     /\ ~o.env.on_the_road[i]

\* ------------------------------------------------------------------ C10
\* C10: in every reachable state curr_cars_count is at most n_max, and so is
\* the number of cars on the road.
C10_CapacityCap ==
  /\ curr_cars_count <= n_max
  /\ Cardinality(OnRoad(Env)) <= n_max

\* one arrival pass activates several slots and the count stays within the cap
C10_Witness ==
  \E a \in FullVectors : \E o \in StepOutcomes(Env, a) :
     /\ o.ret.status = "ok"
     /\ Cardinality({i \in Agents : ~on_the_road[i] /\ o.env.on_the_road[i]}) >= 2
     /\ o.env.curr_cars_count = n_max

\* ------------------------------------------------------------------- C4
\* what one step does to the direction of a car that is on the road before it
TurnRule(e, e2, i) ==
  LET route == e.agents_routes[i]
      dir == e.agents_direction[i]
      dir2 == e2.agents_direction[i]
  IN  /\ e2.agents_routes[i] = route
      /\ route = 1 => dir2 = dir /\ ~e2.agent_turned[i]
      /\ e.agent_turned[i] => dir2 = dir /\ e2.agent_turned[i]
      /\ dir2 # dir =>
           /\ route \in {2, 3}
           /\ e.agent_pos[i] = turning_places(dir)[route - 1]
           /\ ~e.agent_turned[i] /\ e2.agent_turned[i]
      /\ (~e.agent_turned[i] /\ e2.agent_turned[i]) => dir2 # dir
      /\ (~e2.on_the_road[i] /\ route \in {2, 3}) => e2.agent_turned[i]

\* C4: over one trip a route-1 car never changes its direction; a route-2/3
\* car changes it exactly once (counted by its turned flag, false at
\* activation and true at deactivation), only in a step that finds it on
\* turning_places[direction][route - 2], and never again afterwards.
C4_TurnOnceAtTurningPlace ==
  /\ \A a \in FullVectors : \A o \in StepOutcomes(Env, a) :
        /\ \A i \in OnRoad(Env) : TurnRule(Env, o.env, i)
        /\ \A i \in Agents \ OnRoad(Env) :
              o.env.on_the_road[i] => ~o.env.agent_turned[i]
  /\ ret.op = "reset" => \A i \in OnRoad(Env) : ~agent_turned[i]

\* a route-2/3 car turns in a step and a later state holds a car that has
\* finished such a trip
C4_Witness ==
  /\ \E a \in FullVectors : \E o \in StepOutcomes(Env, a) : \E i \in OnRoad(Env) :
        /\ agents_routes[i] \in {2, 3}
        /\ o.env.agents_direction[i] # agents_direction[i]
        /\ o.env.on_the_road[i]
  /\ \E j \in Agents : ~on_the_road[j] /\ agents_routes[j] \in {2, 3} /\ agent_turned[j]

\* ------------------------------------------------------------------- C5
\* the cell a GAS would try for car i in e
GasCell(e, i) == Candidate(e, i, 0).next_pos

\* cars i < j are on the road, not done, both choose GAS and have the same
\* vacant candidate cell
Race(e, a, i, j) ==
  /\ i < j
  /\ e.on_the_road[i] /\ e.on_the_road[j]
  /\ e.agent_dones[i] # "True" /\ e.agent_dones[j] # "True"
  /\ a[i + 1] = 0 /\ a[j + 1] = 0
  /\ GasCell(e, i) = GasCell(e, j)
  /\ is_cell_vacant(e, GasCell(e, i))

\* C5: when two on-road cars both choose GAS in one step and have the same
\* vacant candidate cell, the lower slot moves into it, the higher slot stays
\* in place and receives rcoll.
C5_LowerSlotWinsRace ==
  \A a \in FullVectors : \A i, j \in Agents :
     Race(Env, a, i, j) =>
        \A o \in StepOutcomes(Env, a) :
           o.ret.status = "ok" =>
              /\ o.env.agent_pos[i] = GasCell(Env, i)
              /\ o.env.agent_pos[j] = agent_pos[j]
              /\ o.env.on_the_road[j]
              /\ o.ret.rewards[j] = collision_reward - o.env.step_count
              /\ o.ret.rewards[i] \in {0, 0 - o.env.step_count}

C5_Witness ==
  \E a \in FullVectors : \E i, j \in Agents :
     /\ Race(Env, a, i, j)
     /\ \E o \in StepOutcomes(Env, a) :
           o.ret.status = "ok" /\ o.env.agent_pos[i] = GasCell(Env, i)

\* ------------------------------------------------------------------- C6
\* C6: step(actions) raises whenever len(actions) != n_agents or an element
\* of actions is outside {0, 1}, whatever slot it belongs to.
C6_MisuseRaises ==
  \A a \in ActionVectors :
     Misuse(a) => \A o \in StepOutcomes(Env, a) : Failed(o.ret)

\* ------------------------------------------------------------------- C7
\* C7: when step(actions) raises on a wrong length or an action outside
\* {0, 1}, the whole simulation state is as before the call.
C7_NoMutationOnMisuse ==
  \A a \in ActionVectors :
     Misuse(a) =>
        \A o \in StepOutcomes(Env, a) :
           o.ret.status \in {"AssertionError", "Exception"} => o.env = Env

TopSlotAt(e, p) ==
  CHOOSE i \in Agents :
     /\ e.agent_pos[i] = p
     /\ \A k \in Agents : e.agent_pos[k] = p => k <= i

HorizonCalls == 101

StepBrake ==
  /\ Callable
  /\ step_count < HorizonCalls
  /\ \E o \in StepOutcomes(Env, [k \in 1 .. n_agents |-> 1]) :
        /\ SetEnv(o.env)
        /\ ret' = o.ret

NextHorizon == Reset \/ StepBrake

SpecHorizon == Init /\ [][NextHorizon]_vars

\* C3: the step counter never exceeds the horizon of 100, and once it has
\* reached the horizon every agent's done flag is true.
C3_HorizonBoundsCounter ==
  /\ step_count <= max_steps
  /\ step_count >= max_steps => \A i \in Agents : agent_dones[i] = "True"

\* ------------------------------------------------------------------ C11
\* the constructor's default instance (n_max = 4, one slot per entry gate):
\* reset() as the first call, then steps in which every car brakes, one car
\* drives, or every car drives
MaxStepCalls4 == 2

Init4 == Constructed(DefaultCars)

ResetFirst == step_count = None /\ Reset

ValidVectors == [1 .. n_agents -> {0, 1}]

StepValid(agents_action) ==
  /\ Callable
  /\ step_count # None
  /\ step_count < MaxStepCalls4
  /\ \E o \in StepOutcomes(Env, agents_action) :
        /\ SetEnv(o.env)
        /\ ret' = o.ret

DriveVectors ==
  {v \in ValidVectors : Cardinality({k \in DOMAIN v : v[k] = 0}) \in {0, 1, n_agents}}

Next4 ==
  \/ ResetFirst
  \/ \E agents_action \in DriveVectors : StepValid(agents_action)

Spec4 == Init4 /\ [][Next4]_vars

\* lines 230-236: the counter raised and the movement pass run, as step()
\* does before its arrival pass
MovementOf(e, agents_action) ==
  MovePass([env |-> [e EXCEPT !.step_count = @ + 1],
            rewards |-> [i \in Agents |-> step_cost], raised |-> FALSE],
           agents_action, 0)

\* lines 256-263: what step() does to the environment after its arrival pass
AfterArrival(e) == TerminationCheck(DeparturePass(e, 0))

Activated(e, e2) == {i \in Agents : ~e.on_the_road[i] /\ e2.on_the_road[i]}

OneGateVacant(e) ==
  /\ Cardinality(VacantKeys(e)) = 1
  /\ \E i \in Agents : ~e.on_the_road[i]

\* C11: with n_max = 4, in a step whose arrival draw succeeds while exactly
\* one entry gate is vacant and at least one slot is inactive when the arrival
\* pass runs, exactly one car is activated, it is placed on that gate, whose
\* cell turns from empty to the car's mark, and the live-car count after the
\* step is one higher than before the step.
C11_OneVacantGateOneArrival ==
  \A agents_action \in ValidVectors :
     step_count # None =>
        LET m == MovementOf(Env, agents_action)
        IN  OneGateVacant(m.env) =>
               \A x \in ArrivalPass(m.env, TRUE) :
                  /\ ~x.hang
                  /\ Cardinality(Activated(m.env, x.env)) = 1
                  /\ \A i \in Activated(m.env, x.env) :
                        /\ VacantKeys(m.env) = {x.env.agent_pos[i]}
                        /\ CellAt(m.env, x.env.agent_pos[i]) = PRE_IDS_empty
                        /\ CellAt(x.env, x.env.agent_pos[i]) = AgentTag(i)
                  /\ AfterArrival(x.env).curr_cars_count = curr_cars_count + 1

\* three cars wait on their gates, the fourth has left the road, and a step
\* in which the three brake brings a car in
C11_Witness ==
  /\ n_max = DefaultCars
  /\ Completed(ret)
  /\ OneGateVacant(Env)
  /\ LET m == MovementOf(Env, [k \in 1 .. n_agents |-> 1])
     IN  /\ OneGateVacant(m.env)
         /\ \E x \in ArrivalPass(m.env, TRUE) :
               AfterArrival(x.env).curr_cars_count = curr_cars_count + 1

\* ------------------------------------------------------------------ C12
\* the seeds passed to seed()
MaxSeed == 1
Seeds == 0 .. MaxSeed

\* lines 364-367: seed(n) stores a generator made from n in self.np_random
\* and touches nothing else; the draws of reset() and step() (lines 118, 124,
\* 240, 244, 251) come from the process-wide random module, which seed() does
\* not seed, so they stay the free choices of ResetOutcomes and StepOutcomes
Seed(n) ==
  /\ Callable
  /\ np_random' = n
  /\ ret' = [op |-> "seed", status |-> "ok", rewards |-> << >>]
  /\ UNCHANGED <<step_count, total_episode_reward, agent_dones, on_the_road,
                 agent_turned, curr_cars_count, agent_pos, agents_direction,
                 agents_routes, full_obs, n_max>>

NextSeed ==
  \/ \E n \in Seeds : Seed(n)
  \/ Reset
  \/ \E agents_action \in ValidVectors : StepValid(agents_action)

SpecSeed == Init /\ [][NextSeed]_vars

\* C12: the simulation is reproducible from its seed: two instances in the
\* same state that were given the same seed make the same draws, so the same
\* call (reset(), or step() with the same action vector) has one outcome only.
C12_SeedDeterminesRun ==
  np_random # None =>
     /\ \A o1, o2 \in ResetOutcomes(Env) : o1 = o2
     /\ \A agents_action \in ValidVectors :
           \A o1, o2 \in StepOutcomes(Env, agents_action) : o1 = o2

\* ------------------------------------------------------------------ C13
\* an episode whose last steps are free: every car brakes until LateSteps
\* steps before the horizon, then the steps take any GAS/BRAKE vector, up to
\* one step past the horizon
LateSteps == 3

StepBrakeEarly ==
  /\ Callable
  /\ step_count # None
  /\ step_count < max_steps - LateSteps
  /\ \E o \in StepOutcomes(Env, [k \in 1 .. n_agents |-> 1]) :
        /\ SetEnv(o.env)
        /\ ret' = o.ret

StepLate(agents_action) ==
  /\ Callable
  /\ step_count # None
  /\ step_count >= max_steps - LateSteps
  /\ step_count <= max_steps
  /\ \E o \in StepOutcomes(Env, agents_action) :
        /\ SetEnv(o.env)
        /\ ret' = o.ret

NextLate ==
  \/ Reset
  \/ StepBrakeEarly
  \/ \E agents_action \in ValidVectors : StepLate(agents_action)

SpecLate == Init /\ [][NextLate]_vars

\* slot i takes no part in the movement pass (line 235)
Skipped(e, i) == ~e.on_the_road[i] \/ e.agent_dones[i] = "True"

Flip(agents_action, i) ==
  [agents_action EXCEPT ![i + 1] = 1 - agents_action[i + 1]]

\* C13: the action (0 or 1) submitted for a slot that is not on the road or
\* is done has no effect and does not raise: the movement pass leaves the
\* slot's position, direction, turned flag and the grid as they would be
\* without it and adds nothing to its reward, and the step has the same
\* outcomes for both values.
C13_SkippedSlotActionIgnored ==
  \A agents_action \in ValidVectors : \A i \in Agents :
     (step_count # None /\ Skipped(Env, i)) =>
        LET m == MovementOf(Env, agents_action)
            m2 == MovementOf(Env, Flip(agents_action, i))
        IN  /\ ~m.raised
            /\ m = m2
            /\ m.rewards[i] = 0
            /\ m.env.agent_pos[i] = agent_pos[i]
            /\ m.env.agents_direction[i] = agents_direction[i]
            /\ m.env.agent_turned[i] = agent_turned[i]
            /\ (\A j \in Agents : Skipped(Env, j)) => m.env.full_obs = full_obs
            /\ StepOutcomes(Env, agents_action) = StepOutcomes(Env, Flip(agents_action, i))
            /\ \A o \in StepOutcomes(Env, agents_action) : o.ret.status = "ok"

\* the horizon is reached: one car has left the road, the other is on the
\* road with a free cell ahead, and a step submits GAS for both
C13_Witness ==
  /\ Completed(ret)
  /\ \A i \in Agents : agent_dones[i] = "True"
  /\ \E i, j \in Agents :
        /\ ~on_the_road[i]
        /\ on_the_road[j]
        /\ GasCell(Env, j) # NoPos
        /\ is_valid(GasCell(Env, j))
        /\ is_cell_vacant(Env, GasCell(Env, j))
  /\ \E o \in StepOutcomes(Env, [k \in 1 .. n_agents |-> 0]) :
        o.ret.status = "ok" /\ o.env.agent_pos = agent_pos

\* ------------------------------------------------------------------ C14
\* the movement pass of step(agents_action) as slot i finds it: the slots
\* before i have been processed
BeforeSlot(e, agents_action, i) == MovementOf(e, SubSeq(agents_action, 1, i))

\* slot i takes its turn in the movement pass with GAS and the cell it heads
\* for holds a car
Blocked(e, agents_action, i) ==
  LET b == BeforeSlot(e, agents_action, i)
  IN  /\ ~b.raised
      /\ ~Skipped(e, i)
      /\ agents_action[i + 1] = 0
      /\ check_colision(b.env, Candidate(b.env, i, 0).next_pos)

\* C14: when an on-road car chooses GAS and its candidate cell is occupied by
\* another car, its movement reward for the step is rcoll, its recorded
\* position is unchanged, and its move attempt changes no grid cell.
C14_BlockedCarStays ==
  \A agents_action \in ValidVectors : \A i \in Agents :
     (step_count # None /\ Blocked(Env, agents_action, i)) =>
        LET b == BeforeSlot(Env, agents_action, i)
            u == update_agent_pos(b.env, i, 0)
            m == MovementOf(Env, agents_action)
        IN  /\ ~u.raised
            /\ u.ret = collision_reward
            /\ u.env.agent_pos[i] = agent_pos[i]
            /\ u.env.full_obs = b.env.full_obs
            /\ m.rewards[i] = collision_reward
            /\ m.env.agent_pos[i] = agent_pos[i]
            /\ CellAt(m.env, agent_pos[i]) = AgentTag(i)

\* a car on the road whose next cell holds the other car, which brakes
C14_Witness ==
  /\ Completed(ret)
  /\ \E i, j \in Agents :
        /\ i # j
        /\ on_the_road[i] /\ on_the_road[j]
        /\ GasCell(Env, i) = agent_pos[j]
        /\ Blocked(Env, [k \in 1 .. n_agents |-> IF k = i + 1 THEN 0 ELSE 1], i)

\* ------------------------------------------------------------------ C15
\* line 299: the car is a route-2/3 car on its turning place, not yet turned
TurnDue(e, i) ==
  /\ e.agents_routes[i] \in {2, 3}
  /\ ~e.agent_turned[i]
  /\ e.agent_pos[i] = turning_places(e.agents_direction[i])[e.agents_routes[i] - 1]

\* the car did not move in its turn of the movement pass
Stayed(e, e2, i) == e2.agent_pos[i] = e.agent_pos[i]

\* C15: a car's recorded direction and turned flag are updated only as part
\* of an actual move into a vacant candidate cell: a car that chooses GAS and
\* stays where it is keeps its direction and its turned flag.
C15_DirectionKeptWithoutMove ==
  \A agents_action \in ValidVectors : \A i \in Agents :
     (step_count # None /\ ~Skipped(Env, i) /\ agents_action[i + 1] = 0) =>
        LET b == BeforeSlot(Env, agents_action, i)
            u == update_agent_pos(b.env, i, 0)
        IN  (~b.raised /\ Stayed(b.env, u.env, i)) =>
               /\ u.env.agents_direction[i] = b.env.agents_direction[i]
               /\ u.env.agent_turned[i] = b.env.agent_turned[i]

\* C15 (amended): the direction and the turned flag are rewritten when the
\* candidate cell is computed, before the collision and vacancy tests: a
\* route-2/3 car that chooses GAS on its turning place, not yet turned, has
\* the turned direction and turned = true after its turn whether it moved or
\* not; blocked, it keeps its position, leaves the grid alone, is charged
\* rcoll, and still heads for the same cell.  Any other car that chooses GAS
\* keeps its direction and turned flag.
C15_TurnRecordedBeforeMove ==
  \A agents_action \in ValidVectors : \A i \in Agents :
     (step_count # None /\ ~Skipped(Env, i) /\ agents_action[i + 1] = 0) =>
        LET b == BeforeSlot(Env, agents_action, i)
            u == update_agent_pos(b.env, i, 0)
            target == Candidate(b.env, i, 0).next_pos
        IN  ~b.raised =>
               IF TurnDue(b.env, i)
               THEN /\ u.env.agent_turned[i]
                    /\ u.env.agents_direction[i] =
                          get_next_move(b.env, b.env.agents_routes[i], i)
                    /\ u.env.agents_direction[i] # b.env.agents_direction[i]
                    /\ check_colision(b.env, target) =>
                          /\ Stayed(b.env, u.env, i)
                          /\ u.env.full_obs = b.env.full_obs
                          /\ u.ret = collision_reward
                          /\ Candidate(u.env, i, 0).next_pos = target
               ELSE /\ u.env.agents_direction[i] = b.env.agents_direction[i]
                    /\ u.env.agent_turned[i] = b.env.agent_turned[i]

\* slot 0 on its turning place, not yet turned, the cell it turns into held
\* by the other car
C15_Witness ==
  /\ Completed(ret)
  /\ on_the_road[0]
  /\ TurnDue(Env, 0)
  /\ Blocked(Env, [k \in 1 .. n_agents |-> IF k = 1 THEN 0 ELSE 1], 0)

\* ------------------------------------------------------------------ C16
\* rcoll if slot i takes its turn in the movement pass with GAS and finds its
\* candidate cell occupied, else 0
CollisionPart(e, agents_action, i) ==
  IF Blocked(e, agents_action, i) THEN collision_reward ELSE 0

\* -0.01 times the step counter (in hundredths) if the slot is on the road
\* when the step ends, else 0
TimePart(e2, i) == IF e2.on_the_road[i] THEN 0 - e2.step_count ELSE 0

GateTestSound(e) == is_gate_free(e) <=> VacantKeys(e) # {}

\* C17: the arrival pass always finishes: an inactive slot's attempt is
\* skipped when no entry gate is vacant, and whenever the retry loop is
\* entered at least one entry-gate cell is vacant in the grid, so the loop
\* leaves with the car placed on a vacant gate; the same holds for the
\* placement loop of reset().
C17_ArrivalLoopsFinish ==
  /\ ret.status # "hang"
  /\ step_count = None => \A o \in ResetOutcomes(Env) : ~o.hang
  /\ \A agents_action \in ValidVectors :
        step_count # None => GateTestSound(MovementOf(Env, agents_action).env)
  /\ \A agents_action \in DriveVectors :
        (step_count # None /\ \E i \in Agents : ~on_the_road[i]) =>
           LET m == MovementOf(Env, agents_action)
           IN  \A x \in ArrivalPass(m.env, TRUE) :
                     /\ ~x.hang
                     /\ GateTestSound(x.env)
                     /\ \A i \in Activated(m.env, x.env) :
                           /\ x.env.agent_pos[i] \in VacantKeys(m.env)
                           /\ CellAt(x.env, x.env.agent_pos[i]) = AgentTag(i)

\* two slots are inactive, their gates vacant, and the arrival pass of the
\* next step runs the retry loop for both
C17_Witness ==
  /\ Completed(ret)
  /\ curr_cars_count < n_max
  /\ Cardinality(Agents \ OnRoad(Env)) >= 2
  /\ LET m == MovementOf(Env, [k \in 1 .. n_agents |-> 1])
     IN  /\ is_gate_free(m.env)
         /\ \E x \in ArrivalPass(m.env, TRUE) :
               Cardinality(Activated(m.env, x.env)) >= 2

\* ------------------------------------------------------------------ C18
\* the destination cell of a car driving in direction dir: _destination is
\* index-aligned with the directions the entry gates give
DestinationOf(dir) ==
  destination[CHOOSE k \in DOMAIN entry_gates : route_vectors(entry_gates[k]) = dir]

\* the cars on the road that stand on the destination cell of their direction
Arrived(e) ==
  {i \in OnRoad(e) : e.agent_pos[i] = DestinationOf(e.agents_direction[i])}

\* the environments step(agents_action) can hand to its departure pass
BeforeDeparture(e, agents_action) ==
  LET m == MovementOf(e, agents_action)
  IN  IF m.raised THEN {}
      ELSE {x.env : x \in {y \in ArrivalPass(m.env, TRUE) \cup ArrivalPass(m.env, FALSE) :
                             ~y.hang}}

\* C18: the departure pass of a step affects exactly the cars that are on the
\* road and stand on the destination cell indexed by their direction: each is
\* deactivated and its cell vacated, the live-car count falls by exactly the
\* number of such cars, and slots already inactive change neither the grid
\* nor the count.
C18_DepartureExact ==
  \A agents_action \in ValidVectors :
     step_count # None =>
        \A e \in BeforeDeparture(Env, agents_action) :
           LET d == DeparturePass(e, 0)
           IN  /\ OnRoad(d) = OnRoad(e) \ Arrived(e)
               /\ d.curr_cars_count = e.curr_cars_count - Cardinality(Arrived(e))
               /\ \A p \in Cells :
                     CellAt(d, p) = IF \E i \in Arrived(e) : e.agent_pos[i] = p
                                    THEN PRE_IDS_empty
                                    ELSE CellAt(e, p)
               /\ d.agent_pos = e.agent_pos

\* ------------------------------------------------------------------ C19
AllGas == [k \in 1 .. n_agents |-> 0]

\* what the movement pass reads of the cars
Traffic(e) == <<e.agent_pos, e.agents_direction, e.agent_turned, e.full_obs, e.on_the_road>>

\* cars are on the road before the horizon, every one of them is blocked by a
\* car when all choose GAS, and the pass leaves everything it reads as it
\* was: every later all-GAS movement pass repeats this one (an arrival only
\* adds a car on a gate, no car reaches a destination)
Gridlocked(e) ==
  /\ e.step_count # None
  /\ e.step_count < max_steps - 1
  /\ OnRoad(e) # {}
  /\ LET m == MovementOf(e, AllGas)
     IN  /\ ~m.raised
         /\ Traffic(m.env) = Traffic(e)
         /\ \A i \in OnRoad(e) : Blocked(e, AllGas, i)
         /\ \A i \in OnRoad(e) : e.agent_pos[i] \notin SeqRange(route_vector_keys)

\* C19: if every on-road car chooses GAS at every step, every car on the
\* road eventually reaches a destination and is removed; no reachable
\* configuration of cars in the junction blocks all of them for ever.  In the
\* form a finite run decides: no reachable state is a gridlock.
C19_NoGridlock == ~Gridlocked(Env)

\* ------------------------------------------------------------------ C20
\* an instance with more slots than entry gates (the docstring's Nmax is 10):
\* reset() as the first call, then steps in which every car brakes
InitMany == Constructed(ManyCars)

StepBrakeFirst == step_count < MaxStepCalls4 /\ StepBrakeEarly

NextMany == ResetFirst \/ StepBrakeFirst

SpecMany == InitMany /\ [][NextMany]_vars

\* the cars on the road that are recorded on cell p
CarsAt(e, p) == {k \in OnRoad(e) : e.agent_pos[k] = p}

\* C20: after reset() and after every completed step() a grid cell carries
\* the mark of slot k exactly when car k is on the road and recorded on that
\* cell, and every other cell holds its topology value; every on-road car is
\* within bounds on a road cell and no wall cell is overwritten.
C20_GridMatchesRegistry ==
  Completed(ret) =>
     /\ \A p \in Cells :
           /\ \A k \in Agents : CellAt(Env, p) = AgentTag(k) <=> k \in CarsAt(Env, p)
           /\ CarsAt(Env, p) = {} => CellAt(Env, p) = create_grid[p[1]][p[2]]
     /\ \A k \in OnRoad(Env) :
           /\ is_valid(agent_pos[k])
           /\ create_grid[agent_pos[k][1]][agent_pos[k][2]] = PRE_IDS_empty

====
